---- MODULE Spec2Model ----
(***************************************************************************)
(* Model of the configuration-language translator of src/main.py:          *)
(* class Lexer (generate_tokens), class Parser (parse, declaration, value, *)
(* array, evaluation, error) and the driver main.                          *)
(*                                                                         *)
(* A text is a sequence of one-character strings; offsets are 0-based as   *)
(* in Python, so the character at offset i of t is t[i+1].  A token is a   *)
(* record [kind, value] whose value is the matched text.  Python lists are *)
(* objects with identity: a list lives at an address of heap, and a value  *)
(* that is a list is a reference to that address.                          *)
(***************************************************************************)
EXTENDS Integers, Sequences, FiniteSets, TLC

VARIABLES
    text,          \* Lexer.text
    pos,           \* local pos of Lexer.generate_tokens
    in_comment,    \* local in_comment of Lexer.generate_tokens
    lexer_tokens,  \* Lexer.tokens
    lex_result,    \* "running", "ok" or the error generate_tokens raised
    lex_returned,  \* what generate_tokens returned to its caller
    tokens,        \* Parser.tokens
    position,      \* Parser.position
    constants,     \* Parser.constants, a dict in insertion order
    ast,           \* Parser.ast
    heap,          \* the list objects created so far
    parse_result,  \* "running", "ok" or the error parse raised
    main_pc,       \* where the caller of Parser.parse stands
    main_ast,      \* local ast of main: what parse returned
    yaml_output    \* local yaml_output of main, as dumped

lexVars == <<text, pos, in_comment, lexer_tokens, lex_result, lex_returned>>
parseVars == <<tokens, position, constants, ast, heap, parse_result,
               main_pc, main_ast, yaml_output>>
vars == <<text, pos, in_comment, lexer_tokens, lex_result, lex_returned,
          tokens, position, constants, ast, heap, parse_result,
          main_pc, main_ast, yaml_output>>

(***************************************************************************)
(* Bounds                                                                  *)
(***************************************************************************)
MaxLen == 6        \* longest input text given to the lexer
MaxBase == 4       \* longest input text a comment is inserted into
MaxBody == 2       \* longest comment body inserted into a text
MaxDecls == 4      \* most statements in a token sequence given to the parser
MaxPieces == 3     \* most lexemes in a text assembled from lexemes

None == [some |-> FALSE, v |-> <<>>]
Some(x) == [some |-> TRUE, v |-> x]

(***************************************************************************)
(* Lexer                                                                   *)
(***************************************************************************)
DigitChars == {"0", "1", "2", "3", "4", "5", "6", "7", "8", "9"}
UpperChars == {"A", "B", "C", "D", "E", "F", "G", "H", "I", "J", "K", "L", "M",
               "N", "O", "P", "Q", "R", "S", "T", "U", "V", "W", "X", "Y", "Z"}
NameTailChars == UpperChars \cup DigitChars \cup {"_"}
SkipChars == {" ", "\t", "\n"}

Tok(k, v) == [kind |-> k, value |-> v]

\* the character at 0-based offset i, "" past the end
At(t, i) == IF i >= 0 /\ i < Len(t) THEN t[i + 1] ELSE ""

\* t[i:j] in Python
Slice(t, i, j) == SubSeq(t, i + 1, j)

\* the end of the longest run of characters of S that starts at offset i
RECURSIVE RunEnd(_, _, _)
RunEnd(t, i, S) ==
    IF i < Len(t) /\ t[i + 1] \in S THEN RunEnd(t, i + 1, S) ELSE i

\* t.find(a + b, i) for the two-character string a + b
RECURSIVE Find2(_, _, _, _)
Find2(t, a, b, i) ==
    IF i + 1 >= Len(t) THEN -1
    ELSE IF t[i + 1] = a /\ t[i + 2] = b THEN i
    ELSE Find2(t, a, b, i + 1)

\* the offset of the first quote at or after i, -1 if none
RECURSIVE FindQuote(_, _)
FindQuote(t, i) ==
    IF i >= Len(t) THEN -1
    ELSE IF t[i + 1] = "'" THEN i
    ELSE FindQuote(t, i + 1)

Two(t, p, a, b) == At(t, p) = a /\ At(t, p + 1) = b

\* pattern.match(self.text, pos): the first alternative of
\* token_specification that matches at p; end is match.end()
Match(t, p) ==
    LET c == At(t, p) IN
    IF Two(t, p, "/", "*") THEN [kind |-> "COMMENT_START", end |-> p + 2]
    ELSE IF Two(t, p, "*", "/") THEN [kind |-> "COMMENT_END", end |-> p + 2]
    ELSE IF Two(t, p, ":", "=") THEN [kind |-> "ASSIGN", end |-> p + 2]
    ELSE IF c = ";" THEN [kind |-> "SEMICOLON", end |-> p + 1]
    ELSE IF Two(t, p, "$", "(") THEN [kind |-> "EVAL_START", end |-> p + 2]
    ELSE IF c = ")" THEN [kind |-> "EVAL_END", end |-> p + 1]
    ELSE IF Two(t, p, "<", "<") THEN [kind |-> "ARRAY_START", end |-> p + 2]
    ELSE IF Two(t, p, ">", ">") THEN [kind |-> "ARRAY_END", end |-> p + 2]
    ELSE IF c = "," THEN [kind |-> "COMMA", end |-> p + 1]
    ELSE IF c \in DigitChars
        THEN [kind |-> "NUMBER", end |-> RunEnd(t, p, DigitChars)]
    ELSE IF c = "'" /\ FindQuote(t, p + 1) # -1
        THEN [kind |-> "STRING", end |-> FindQuote(t, p + 1) + 1]
    ELSE IF c \in UpperChars
        THEN [kind |-> "NAME", end |-> RunEnd(t, p + 1, NameTailChars)]
    ELSE IF c \in SkipChars
        THEN [kind |-> "SKIP", end |-> RunEnd(t, p, SkipChars)]
    ELSE IF c # "" /\ c # "\n" THEN [kind |-> "MISMATCH", end |-> p + 1]
    ELSE [kind |-> "NONE", end |-> p]

LexState(p, ic, toks, res) ==
    [pos |-> p, in_comment |-> ic, tokens |-> toks, result |-> res]

\* LexIter with the search for the closing marker started one character
\* early, inside the opening marker
LexIterOverlappingClose(t, s) ==
    IF s.in_comment
    THEN LET comment_end == Find2(t, "*", "/", s.pos - 1) IN
         IF comment_end = -1
         THEN LexState(s.pos, TRUE, s.tokens, "UnterminatedComment")
         ELSE LexState(comment_end + 2, FALSE, s.tokens, "running")
    ELSE LET m == Match(t, s.pos) IN
         CASE m.kind = "NONE" ->
                  LexState(s.pos, FALSE, s.tokens, "InvalidCharacter")
           [] m.kind = "COMMENT_START" ->
                  LexState(m.end, TRUE, s.tokens, "running")
           [] m.kind = "COMMENT_END" ->
                  LexState(s.pos, FALSE, s.tokens, "UnmatchedCommentEnd")
           [] m.kind = "SKIP" ->
                  LexState(m.end, FALSE, s.tokens, "running")
           [] m.kind = "MISMATCH" ->
                  LexState(s.pos, FALSE, s.tokens, "InvalidCharacter")
           [] OTHER ->
                  LexState(m.end, FALSE,
                           Append(s.tokens, Tok(m.kind, Slice(t, s.pos, m.end))),
                           "running")

\* LexIter with a closing marker outside a comment skipped like whitespace
LexIterStrayCloseSkipped(t, s) ==
    IF s.in_comment
    THEN LET comment_end == Find2(t, "*", "/", s.pos) IN
         IF comment_end = -1
         THEN LexState(s.pos, TRUE, s.tokens, "UnterminatedComment")
         ELSE LexState(comment_end + 2, FALSE, s.tokens, "running")
    ELSE LET m == Match(t, s.pos) IN
         CASE m.kind = "NONE" ->
                  LexState(s.pos, FALSE, s.tokens, "InvalidCharacter")
           [] m.kind = "COMMENT_START" ->
                  LexState(m.end, TRUE, s.tokens, "running")
           [] m.kind \in {"SKIP", "COMMENT_END"} ->
                  LexState(m.end, FALSE, s.tokens, "running")
           [] m.kind = "MISMATCH" ->
                  LexState(s.pos, FALSE, s.tokens, "InvalidCharacter")
           [] OTHER ->
                  LexState(m.end, FALSE,
                           Append(s.tokens, Tok(m.kind, Slice(t, s.pos, m.end))),
                           "running")

\* LexIter resuming at the closing marker of a comment instead of after it
LexIterCloseNotConsumed(t, s) ==
    IF s.in_comment
    THEN LET comment_end == Find2(t, "*", "/", s.pos) IN
         IF comment_end = -1
         THEN LexState(s.pos, TRUE, s.tokens, "UnterminatedComment")
         ELSE LexState(comment_end, FALSE, s.tokens, "running")
    ELSE LET m == Match(t, s.pos) IN
         CASE m.kind = "NONE" ->
                  LexState(s.pos, FALSE, s.tokens, "InvalidCharacter")
           [] m.kind = "COMMENT_START" ->
                  LexState(m.end, TRUE, s.tokens, "running")
           [] m.kind = "COMMENT_END" ->
                  LexState(s.pos, FALSE, s.tokens, "UnmatchedCommentEnd")
           [] m.kind = "SKIP" ->
                  LexState(m.end, FALSE, s.tokens, "running")
           [] m.kind = "MISMATCH" ->
                  LexState(s.pos, FALSE, s.tokens, "InvalidCharacter")
           [] OTHER ->
                  LexState(m.end, FALSE,
                           Append(s.tokens, Tok(m.kind, Slice(t, s.pos, m.end))),
                           "running")

\* LexIter with a whitespace run appended to the tokens like any other match
LexIterSurfacingSkip(t, s) ==
    IF s.in_comment
    THEN LET comment_end == Find2(t, "*", "/", s.pos) IN
         IF comment_end = -1
         THEN LexState(s.pos, TRUE, s.tokens, "UnterminatedComment")
         ELSE LexState(comment_end + 2, FALSE, s.tokens, "running")
    ELSE LET m == Match(t, s.pos) IN
         CASE m.kind = "NONE" ->
                  LexState(s.pos, FALSE, s.tokens, "InvalidCharacter")
           [] m.kind = "COMMENT_START" ->
                  LexState(m.end, TRUE, s.tokens, "running")
           [] m.kind = "COMMENT_END" ->
                  LexState(s.pos, FALSE, s.tokens, "UnmatchedCommentEnd")
           [] m.kind = "MISMATCH" ->
                  LexState(s.pos, FALSE, s.tokens, "InvalidCharacter")
           [] OTHER ->
                  LexState(m.end, FALSE,
                           Append(s.tokens, Tok(m.kind, Slice(t, s.pos, m.end))),
                           "running")

\* one iteration of the while loop of generate_tokens, entered with
\* pos < len(self.text)
LexIter(t, s) ==
    IF s.in_comment
    THEN LET comment_end == Find2(t, "*", "/", s.pos) IN
         IF comment_end = -1
         THEN LexState(s.pos, TRUE, s.tokens, "UnterminatedComment")
         ELSE LexState(comment_end + 2, FALSE, s.tokens, "running")
    ELSE LET m == Match(t, s.pos) IN
         CASE m.kind = "NONE" ->
                  LexState(s.pos, FALSE, s.tokens, "InvalidCharacter")
           [] m.kind = "COMMENT_START" ->
                  LexState(m.end, TRUE, s.tokens, "running")
           [] m.kind = "COMMENT_END" ->
                  LexState(s.pos, FALSE, s.tokens, "UnmatchedCommentEnd")
           [] m.kind = "SKIP" ->
                  LexState(m.end, FALSE, s.tokens, "running")
           [] m.kind = "MISMATCH" ->
                  LexState(s.pos, FALSE, s.tokens, "InvalidCharacter")
           [] OTHER ->
                  LexState(m.end, FALSE,
                           Append(s.tokens, Tok(m.kind, Slice(t, s.pos, m.end))),
                           "running")

\* generate_tokens run to its end from lexer state s
RECURSIVE LexRun(_, _)
LexRun(t, s) ==
    IF s.result # "running" THEN [result |-> s.result, returned |-> None]
    ELSE IF s.pos < Len(t) THEN LexRun(t, LexIter(t, s))
    ELSE [result |-> "ok", returned |-> Some(s.tokens)]

\* Lexer(text).generate_tokens()
GenerateTokens(t) == LexRun(t, LexState(0, FALSE, <<>>, "running"))

LexChars == {"/", "*", "'", "A", " ", "$"}

RECURSIVE SeqsUpTo(_, _)
SeqsUpTo(S, n) ==
    IF n = 0 THEN {<<>>}
    ELSE LET shorter == SeqsUpTo(S, n - 1) IN
         shorter \cup {Append(s, c) : s \in shorter, c \in S}

\* the parser's variables while only the lexer runs
ParserIdle ==
    /\ tokens = <<>>
    /\ position = 0
    /\ constants = <<>>
    /\ ast = <<>>
    /\ heap = <<>>
    /\ parse_result = "idle"
    /\ main_pc = "lex"
    /\ main_ast = None
    /\ yaml_output = None

\* Lexer.__init__ and the first lines of generate_tokens
InitLex ==
    /\ \E n \in 0..MaxLen : text \in [1..n -> LexChars]
    /\ pos = 0
    /\ in_comment = FALSE
    /\ lexer_tokens = <<>>
    /\ lex_result = "running"
    /\ lex_returned = None
    /\ ParserIdle

\* the loop body of generate_tokens
LexerStep ==
    /\ lex_result = "running"
    /\ pos < Len(text)
    /\ LET s == LexIter(text, LexState(pos, in_comment, lexer_tokens, "running")) IN
       /\ pos' = s.pos
       /\ in_comment' = s.in_comment
       /\ lexer_tokens' = s.tokens
       /\ lex_result' = s.result
    /\ UNCHANGED <<text, lex_returned>>
    /\ UNCHANGED parseVars

\* the loop exit and return self.tokens
LexerReturn ==
    /\ lex_result = "running"
    /\ ~(pos < Len(text))
    /\ lex_result' = "ok"
    /\ lex_returned' = Some(lexer_tokens)
    /\ UNCHANGED <<text, pos, in_comment, lexer_tokens>>
    /\ UNCHANGED parseVars

NextLex == LexerStep \/ LexerReturn

SpecLex == InitLex /\ [][NextLex]_vars

(***************************************************************************)
(* Values                                                                  *)
(*                                                                         *)
(* An int and a str are immutable and are held by value; a list is held by *)
(* the address of its object in heap.                                      *)
(***************************************************************************)
IntV(n) == [t |-> "int", n |-> n, s |-> <<>>, a |-> 0]
StrV(s) == [t |-> "str", n |-> 0, s |-> s, a |-> 0]
ListV(a) == [t |-> "list", n |-> 0, s |-> <<>>, a |-> a]

DigitVal(c) ==
    CASE c = "0" -> 0 [] c = "1" -> 1 [] c = "2" -> 2 [] c = "3" -> 3
      [] c = "4" -> 4 [] c = "5" -> 5 [] c = "6" -> 6 [] c = "7" -> 7
      [] c = "8" -> 8 [] c = "9" -> 9

\* int(value) of a NUMBER token's text
RECURSIVE ToInt(_)
ToInt(d) ==
    IF d = <<>> THEN 0
    ELSE 10 * ToInt(SubSeq(d, 1, Len(d) - 1)) + DigitVal(d[Len(d)])

\* Strip that removes blanks along with the quotes
RECURSIVE StripQuotesAndBlanks(_)
StripQuotesAndBlanks(v) ==
    IF v # <<>> /\ v[1] \in {"'", " "} THEN StripQuotesAndBlanks(Tail(v))
    ELSE IF v # <<>> /\ v[Len(v)] \in {"'", " "}
        THEN StripQuotesAndBlanks(SubSeq(v, 1, Len(v) - 1))
    ELSE v

\* value.strip("'"): every leading and every trailing quote removed
RECURSIVE Strip(_)
Strip(v) ==
    IF v # <<>> /\ v[1] = "'" THEN Strip(Tail(v))
    ELSE IF v # <<>> /\ v[Len(v)] = "'" THEN Strip(SubSeq(v, 1, Len(v) - 1))
    ELSE v

\* the value tree a value stands for: what copy.deepcopy and yaml.dump see
RECURSIVE Deep(_, _)
Deep(v, hp) ==
    IF v.t = "list"
    THEN [t |-> "list", n |-> 0, s |-> <<>>,
          items |-> [i \in 1..Len(hp[v.a]) |-> Deep(hp[v.a][i], hp)]]
    ELSE [t |-> v.t, n |-> v.n, s |-> v.s, items |-> <<>>]

(***************************************************************************)
(* Parser.constants: a dict, kept as its items in insertion order          *)
(***************************************************************************)
Has(consts, name) == \E i \in 1..Len(consts) : consts[i].name = name

Get(consts, name) ==
    consts[CHOOSE i \in 1..Len(consts) : consts[i].name = name].value

\* Upsert that keeps the first binding of a name
UpsertKeepFirst(consts, name, value) ==
    IF Has(consts, name) THEN consts
    ELSE Append(consts, [name |-> name, value |-> value])

\* self.constants[name] = value
Upsert(consts, name, value) ==
    IF Has(consts, name)
    THEN [i \in 1..Len(consts) |->
             IF consts[i].name = name THEN [name |-> name, value |-> value]
             ELSE consts[i]]
    ELSE Append(consts, [name |-> name, value |-> value])

\* Record that overwrites an earlier entry of the same name
RecordLatestOnly(a, name, value) ==
    IF \E i \in 1..Len(a) : a[i].name = name
    THEN [i \in 1..Len(a) |->
             IF a[i].name = name THEN [name |-> name, value |-> value] ELSE a[i]]
    ELSE Append(a, [name |-> name, value |-> value])

\* self.ast.append((name, value))
Record(a, name, value) == Append(a, [name |-> name, value |-> value])

(***************************************************************************)
(* Parser: the recursive descent, as functions of the token sequence, the  *)
(* cursor, the symbol table and the heap.  A result carries the error      *)
(* raised ("none" if the call returned), the value returned, and the       *)
(* cursor and heap the call left behind.  "IndexError" is the exception of *)
(* self.tokens[self.position] past the end of the list.                    *)
(***************************************************************************)
Ok(v, p, hp) == [err |-> "none", val |-> v, position |-> p, heap |-> hp]
Raise(e, p, hp) == [err |-> e, val |-> IntV(0), position |-> p, heap |-> hp]

\* self.tokens[p]
TokenAt(toks, p) == toks[p + 1]

\* Evaluation with a default value for a name that is not bound
EvaluationDefaulting(toks, p, consts, hp) ==
    LET p1 == p + 1
        p2 == p + 2
        p3 == p + 3 IN
    IF p1 >= Len(toks) THEN Raise("IndexError", p1, hp)
    ELSE IF TokenAt(toks, p1).kind # "NAME" THEN Raise("ExpectedEvalName", p1, hp)
    ELSE IF p2 >= Len(toks) THEN Raise("IndexError", p2, hp)
    ELSE IF TokenAt(toks, p2).kind # "EVAL_END" THEN Raise("ExpectedEvalEnd", p2, hp)
    ELSE IF ~Has(consts, TokenAt(toks, p1).value) THEN Ok(IntV(0), p3, hp)
    ELSE Ok(Get(consts, TokenAt(toks, p1).value), p3, hp)

\* Evaluation that looks the name up before it expects the )
EvaluationLookupFirst(toks, p, consts, hp) ==
    LET p1 == p + 1
        p2 == p + 2
        p3 == p + 3 IN
    IF p1 >= Len(toks) THEN Raise("IndexError", p1, hp)
    ELSE IF TokenAt(toks, p1).kind # "NAME" THEN Raise("ExpectedEvalName", p1, hp)
    ELSE IF ~Has(consts, TokenAt(toks, p1).value)
        THEN Raise("UndefinedConstant", p2, hp)
    ELSE IF p2 >= Len(toks) THEN Raise("IndexError", p2, hp)
    ELSE IF TokenAt(toks, p2).kind # "EVAL_END" THEN Raise("ExpectedEvalEnd", p2, hp)
    ELSE Ok(Get(consts, TokenAt(toks, p1).value), p3, hp)

\* Parser.evaluation, entered with the cursor p at the EVAL_START token
Evaluation(toks, p, consts, hp) ==
    LET p1 == p + 1
        p2 == p + 2
        p3 == p + 3 IN
    IF p1 >= Len(toks) THEN Raise("IndexError", p1, hp)
    ELSE IF TokenAt(toks, p1).kind # "NAME" THEN Raise("ExpectedEvalName", p1, hp)
    ELSE IF p2 >= Len(toks) THEN Raise("IndexError", p2, hp)
    ELSE IF TokenAt(toks, p2).kind # "EVAL_END" THEN Raise("ExpectedEvalEnd", p2, hp)
    ELSE IF ~Has(consts, TokenAt(toks, p1).value)
        THEN Raise("UndefinedConstant", p3, hp)
    ELSE Ok(Get(consts, TokenAt(toks, p1).value), p3, hp)

RECURSIVE Value(_, _, _, _)
RECURSIVE ArrayLoop(_, _, _, _, _)

\* Array that accepts << >> as a list without elements
ArrayAllowingEmpty(toks, p, consts, hp) ==
    IF p + 1 < Len(toks) /\ TokenAt(toks, p + 1).kind = "ARRAY_END"
    THEN Ok(ListV(Len(hp) + 1), p + 2, Append(hp, <<>>))
    ELSE ArrayLoop(toks, p + 1, consts, Append(hp, <<>>), Len(hp) + 1)

\* Parser.array, entered with the cursor p at the ARRAY_START token:
\* items = [] is a new list object
Array(toks, p, consts, hp) ==
    ArrayLoop(toks, p + 1, consts, Append(hp, <<>>), Len(hp) + 1)

\* ArrayLoop with each element put in front of the elements before it
ArrayLoopPrepending(toks, p, consts, hp, addr) ==
    LET r == Value(toks, p, consts, hp) IN
    IF r.err # "none" THEN r
    ELSE LET hp2 == [r.heap EXCEPT ![addr] = <<r.val>> \o @] IN
         IF r.position >= Len(toks) THEN Raise("IndexError", r.position, hp2)
         ELSE IF TokenAt(toks, r.position).kind = "COMMA"
             THEN ArrayLoop(toks, r.position + 1, consts, hp2, addr)
         ELSE IF TokenAt(toks, r.position).kind = "ARRAY_END"
             THEN Ok(ListV(addr), r.position + 1, hp2)
         ELSE Raise("ExpectedCommaOrArrayEnd", r.position, hp2)

\* one iteration of the while True loop of Parser.array; items is heap[addr]
ArrayLoop(toks, p, consts, hp, addr) ==
    LET r == Value(toks, p, consts, hp) IN
    IF r.err # "none" THEN r
    ELSE LET hp2 == [r.heap EXCEPT ![addr] = Append(@, r.val)] IN
         IF r.position >= Len(toks) THEN Raise("IndexError", r.position, hp2)
         ELSE IF TokenAt(toks, r.position).kind = "COMMA"
             THEN ArrayLoop(toks, r.position + 1, consts, hp2, addr)
         ELSE IF TokenAt(toks, r.position).kind = "ARRAY_END"
             THEN Ok(ListV(addr), r.position + 1, hp2)
         ELSE Raise("ExpectedCommaOrArrayEnd", r.position, hp2)

\* Parser.value
Value(toks, p, consts, hp) ==
    IF p >= Len(toks) THEN Raise("UnexpectedEndOfInput", p, hp)
    ELSE LET tk == TokenAt(toks, p) IN
         CASE tk.kind = "NUMBER" -> Ok(IntV(ToInt(tk.value)), p + 1, hp)
           [] tk.kind = "STRING" -> Ok(StrV(Strip(tk.value)), p + 1, hp)
           [] tk.kind = "ARRAY_START" -> Array(toks, p, consts, hp)
           [] tk.kind = "EVAL_START" -> Evaluation(toks, p, consts, hp)
           [] OTHER -> Raise("UnexpectedToken", p, hp)

\* DeclarationOp without the test of the token after the name
DeclarationOpAssignUnchecked(toks, p, consts, hp) ==
    LET name == TokenAt(toks, p).value
        fail(e, q) == [err |-> e, name |-> name, val |-> IntV(0),
                       position |-> q, heap |-> hp] IN
    IF TokenAt(toks, p).kind # "NAME" THEN fail("ExpectedName", p)
    ELSE IF p + 1 >= Len(toks) THEN fail("IndexError", p + 1)
    ELSE LET r == Value(toks, p + 2, consts, hp) IN
         IF r.err # "none" THEN fail(r.err, r.position)
         ELSE IF r.position >= Len(toks) THEN fail("IndexError", r.position)
         ELSE IF TokenAt(toks, r.position).kind # "SEMICOLON"
             THEN fail("ExpectedSemicolon", r.position)
         ELSE [err |-> "none", name |-> name, val |-> r.val,
               position |-> r.position + 1, heap |-> r.heap]

\* Parser.declaration up to the statement terminator, entered with
\* p < len(self.tokens); name is the declared name
DeclarationOp(toks, p, consts, hp) ==
    LET name == TokenAt(toks, p).value
        fail(e, q) == [err |-> e, name |-> name, val |-> IntV(0),
                       position |-> q, heap |-> hp] IN
    IF TokenAt(toks, p).kind # "NAME" THEN fail("ExpectedName", p)
    ELSE IF p + 1 >= Len(toks) THEN fail("IndexError", p + 1)
    ELSE IF TokenAt(toks, p + 1).kind # "ASSIGN" THEN fail("ExpectedAssign", p + 1)
    ELSE LET r == Value(toks, p + 2, consts, hp) IN
         IF r.err # "none" THEN fail(r.err, r.position)
         ELSE IF r.position >= Len(toks) THEN fail("IndexError", r.position)
         ELSE IF TokenAt(toks, r.position).kind # "SEMICOLON"
             THEN fail("ExpectedSemicolon", r.position)
         ELSE [err |-> "none", name |-> name, val |-> r.val,
               position |-> r.position + 1, heap |-> r.heap]

\* a handler that swallows the error and lets main go on to the dump
ExceptionHandlerSwallowing(err) == "returned"

\* main's handling of an exception out of parse: SyntaxError is reported
\* with exit status 1, any other exception is not caught
ExceptionHandler(err) == IF err = "IndexError" THEN "crash" ELSE "exit1"

(***************************************************************************)
(* Token sequences given to the parser                                     *)
(***************************************************************************)
NameT(c) == Tok("NAME", <<c>>)
NumT(c) == Tok("NUMBER", <<c>>)
StrT == Tok("STRING", <<"'", "x", "'">>)
AssignT == Tok("ASSIGN", <<":", "=">>)
SemiT == Tok("SEMICOLON", <<";">>)
EvalStartT == Tok("EVAL_START", <<"$", "(">>)
EvalEndT == Tok("EVAL_END", <<")">>)
ArrayStartT == Tok("ARRAY_START", <<"<", "<">>)
ArrayEndT == Tok("ARRAY_END", <<">", ">">>)
CommaT == Tok("COMMA", <<",">>)

RefT(c) == <<EvalStartT, NameT(c), EvalEndT>>

\* well-formed statements
GoodStmts ==
    { <<NameT("A"), AssignT, NumT("1"), SemiT>>,
      <<NameT("A"), AssignT, ArrayStartT, NumT("2"), CommaT, ArrayStartT, StrT,
        ArrayEndT, ArrayEndT, SemiT>>,
      <<NameT("A"), AssignT>> \o RefT("A") \o <<SemiT>>,
      <<NameT("A"), AssignT, ArrayStartT, NumT("1"), CommaT>> \o RefT("A")
          \o <<ArrayEndT, SemiT>>,
      <<NameT("B"), AssignT>> \o RefT("A") \o <<SemiT>>,
      <<NameT("C"), AssignT>> \o RefT("A") \o <<SemiT>> }

\* statements with a token of the wrong kind
BadStmts ==
    { <<NameT("A"), NumT("5"), SemiT>>,
      <<NameT("A"), AssignT, NumT("5"), NameT("B")>>,
      <<AssignT, NumT("1"), SemiT>>,
      <<NameT("A"), AssignT, SemiT>>,
      <<NameT("A"), AssignT, ArrayStartT, ArrayEndT, SemiT>>,
      <<NameT("A"), AssignT, ArrayStartT, NumT("1"), CommaT, ArrayEndT, SemiT>>,
      <<NameT("A"), AssignT, ArrayStartT, NumT("1"), NumT("2"), ArrayEndT, SemiT>>,
      <<NameT("A"), AssignT, ArrayStartT, NumT("1"), SemiT>>,
      <<NameT("A"), AssignT, EvalStartT, NameT("B"), SemiT>>,
      <<NameT("A"), AssignT, EvalStartT, NumT("1"), EvalEndT, SemiT>> }

EmptyStrT == Tok("STRING", <<"'", "'">>)

\* more well-formed statements, given as the last statement only
LastStmts ==
    { <<NameT("A"), AssignT, ArrayStartT, NumT("1"), ArrayEndT, SemiT>>,
      <<NameT("A"), AssignT, ArrayStartT, NumT("1"), CommaT, NumT("2"), CommaT,
        ArrayStartT, NumT("3"), CommaT, NumT("4"), ArrayEndT, ArrayEndT, SemiT>>,
      <<NameT("B"), AssignT, StrT, SemiT>>,
      <<NameT("B"), AssignT, ArrayStartT, EmptyStrT, CommaT, NumT("1"), ArrayEndT,
        SemiT>> }

\* every statement and every statement cut short, the empty one included
Endings ==
    UNION {{SubSeq(st, 1, k) : k \in 0..Len(st)} :
              st \in GoodStmts \cup BadStmts \cup LastStmts}

RECURSIVE Concat(_)
Concat(ss) == IF ss = <<>> THEN <<>> ELSE Head(ss) \o Concat(Tail(ss))

\* the sequences of n elements of S, for every n up to max
SeqsOfLen(S, n) == [1..n -> S]

(***************************************************************************)
(* Parser and main                                                         *)
(***************************************************************************)
\* the lexer's variables once generate_tokens has returned to main
LexerDone ==
    /\ text = <<>>
    /\ pos = 0
    /\ in_comment = FALSE
    /\ lexer_tokens = <<>>
    /\ lex_result = "ok"
    /\ lex_returned = None

\* Parser.__init__, called by main with the tokens: up to MaxDecls statements,
\* well-formed ones and then any ending
Init ==
    /\ LexerDone
    /\ \E n \in 0..(MaxDecls - 1) : \E g \in SeqsOfLen(GoodStmts, n) : \E e \in Endings :
          tokens = Concat(g) \o e
    /\ position = 0
    /\ constants = <<>>
    /\ ast = <<>>
    /\ heap = <<>>
    /\ parse_result = "running"
    /\ main_pc = "parse"
    /\ main_ast = None
    /\ yaml_output = None

\* a declaration that binds its name before its value has been parsed
DeclarationBindingEarly ==
    /\ parse_result = "running"
    /\ position < Len(tokens)
    /\ LET d == DeclarationOp(tokens, position, constants, heap)
           first == tokens[position + 1] IN
       IF d.err = "none"
       THEN /\ position' = d.position
            /\ heap' = d.heap
            /\ constants' = Upsert(constants, d.name, d.val)
            /\ ast' = Record(ast, d.name, d.val)
            /\ UNCHANGED <<parse_result, main_pc>>
       ELSE /\ position' = d.position
            /\ parse_result' = d.err
            /\ main_pc' = ExceptionHandler(d.err)
            /\ constants' = IF first.kind = "NAME"
                                THEN Upsert(constants, first.value, IntV(0))
                                ELSE constants
            /\ UNCHANGED <<heap, ast>>
    /\ UNCHANGED <<tokens, main_ast, yaml_output>>
    /\ UNCHANGED lexVars

\* one iteration of the loop of Parser.parse: self.ast.append(self.declaration());
\* an exception leaves parse and reaches main's handlers
Declaration ==
    /\ parse_result = "running"
    /\ position < Len(tokens)
    /\ LET d == DeclarationOp(tokens, position, constants, heap) IN
       IF d.err = "none"
       THEN /\ position' = d.position
            /\ heap' = d.heap
            /\ constants' = Upsert(constants, d.name, d.val)
            /\ ast' = Record(ast, d.name, d.val)
            /\ UNCHANGED <<parse_result, main_pc>>
       ELSE /\ position' = d.position
            /\ parse_result' = d.err
            /\ main_pc' = ExceptionHandler(d.err)
            /\ UNCHANGED <<heap, constants, ast>>
    /\ UNCHANGED <<tokens, main_ast, yaml_output>>
    /\ UNCHANGED lexVars

\* the loop exit of Parser.parse and return self.ast
ParseReturn ==
    /\ parse_result = "running"
    /\ ~(position < Len(tokens))
    /\ parse_result' = "ok"
    /\ main_ast' = Some(ast)
    /\ main_pc' = "returned"
    /\ UNCHANGED <<tokens, position, constants, ast, heap, yaml_output>>
    /\ UNCHANGED lexVars

\* main: yaml_output[name] = copy.deepcopy(value) for the items of
\* config_parser.constants, then the dump
Emit ==
    /\ main_pc = "returned"
    /\ yaml_output' = Some([i \in 1..Len(constants) |->
                               [name |-> constants[i].name,
                                value |-> Deep(constants[i].value, heap)]])
    /\ main_pc' = "exit0"
    /\ UNCHANGED <<tokens, position, constants, ast, heap, parse_result, main_ast>>
    /\ UNCHANGED lexVars

\* a caller of Parser.parse appends to a list of the returned sequence
MutateReturned ==
    /\ main_pc = "returned"
    /\ main_ast.some
    /\ \E i \in 1..Len(main_ast.v) :
          /\ main_ast.v[i].value.t = "list"
          /\ heap' = [heap EXCEPT ![main_ast.v[i].value.a] = Append(@, IntV(0))]
    /\ main_pc' = "mutated"
    /\ UNCHANGED <<tokens, position, constants, ast, parse_result, main_ast,
                   yaml_output>>
    /\ UNCHANGED lexVars

Next == Declaration \/ ParseReturn \/ Emit \/ MutateReturned

Spec == Init /\ [][Next]_vars

(***************************************************************************)
(* Texts assembled from lexemes: every token kind, the characters that     *)
(* begin no token, and a character of two bytes in UTF-8 (main reads the   *)
(* file with encoding utf-8 into a str of code points)                     *)
(***************************************************************************)
Pieces ==
    { <<":", "=">>, <<";">>, <<"$", "(">>, <<")">>, <<"<", "<">>, <<">", ">">>,
      <<",">>, <<"1">>, <<"A">>, <<"'", "x", "'">>, <<"'", "U+00E9", "'">>, <<"'">>,
      <<" ">>, <<"/", "*">>, <<"*", "/">>,
      <<"<">>, <<"$">>, <<":">>, <<"a">>, <<"\r">> }

\* Lexer.__init__ on a text of up to MaxPieces lexemes
InitLexPieces ==
    /\ \E n \in 0..MaxPieces : \E ps \in SeqsOfLen(Pieces, n) : text = Concat(ps)
    /\ pos = 0
    /\ in_comment = FALSE
    /\ lexer_tokens = <<>>
    /\ lex_result = "running"
    /\ lex_returned = None
    /\ ParserIdle

SpecLexPieces == InitLexPieces /\ [][NextLex]_vars

\* the number of bytes of a character in the UTF-8 source file; "U+00E9" is
\* the one character e with acute accent
ByteWidth(c) == IF c = "U+00E9" THEN 2 ELSE 1

\* the byte offset in the UTF-8 source of the character at offset i of t
RECURSIVE ByteOffset(_, _)
ByteOffset(t, i) ==
    IF i = 0 THEN 0 ELSE ByteOffset(t, i - 1) + ByteWidth(t[i])

\* the offset an InvalidCharacter error carries: pos in the message
ErrorOffset == pos

(***************************************************************************)
(* Lexer properties                                                        *)
(***************************************************************************)
LexFinished == lex_result # "running"

\* C2: when a comment opened by a matched /* is never closed before the end
\* of the input, generate_tokens fails with UnterminatedComment and returns
\* no token sequence, wherever the /* stands.
C2_UnterminatedCommentFails ==
    (LexFinished /\ in_comment /\ Find2(text, "*", "/", pos) = -1)
        => (lex_result = "UnterminatedComment" /\ lex_returned = None)

BodyChars == {"/", "*", "'", "$"}
Bodies == {b \in SeqsUpTo(BodyChars, MaxBody) : Find2(b, "*", "/", 0) = -1}

\* t with the comment /* body */ inserted at offset p
InsertComment(t, p, body) ==
    Slice(t, 0, p) \o <<"/", "*">> \o body \o <<"*", "/">> \o Slice(t, p, Len(t))

\* C8: wherever the lexer stands between two tokens, a comment /* body */
\* inserted there, with any body free of */, leaves the outcome of
\* generate_tokens (the tokens returned, or the failure) unchanged.
C8_CommentIsOpaque ==
    (lex_result = "running" /\ ~in_comment /\ Len(text) <= MaxBase)
        => \A body \in Bodies :
               GenerateTokens(InsertComment(text, pos, body)) = GenerateTokens(text)

\* a comment whose body holds a quote and an opening marker can be inserted
\* after a first token, and the text then still yields that token
C8_Witness ==
    /\ lex_result = "running" /\ ~in_comment
    /\ Len(text) <= MaxBase /\ pos > 0 /\ pos < Len(text)
    /\ Len(lexer_tokens) = 1
    /\ <<"/", "*">> \in Bodies /\ <<"'", "$">> \in Bodies
    /\ GenerateTokens(InsertComment(text, pos, <<"/", "*">>)).result = "ok"
    /\ Len(GenerateTokens(text).returned.v) = 2

\* C9: a step taken outside comment mode with the scan position at */ ends
\* generate_tokens with UnmatchedCommentEnd and nothing returned.
C9_StrayCloseFails ==
    [][(lex_result = "running" /\ ~in_comment /\ Two(text, pos, "*", "/"))
          => (lex_result' = "UnmatchedCommentEnd" /\ lex_returned' = None)]_vars

\* a second */ after a comment that was opened and closed
C9_Witness ==
    /\ lex_result = "UnmatchedCommentEnd"
    /\ lex_returned = None
    /\ Find2(text, "/", "*", 0) # -1
    /\ Find2(text, "/", "*", 0) + 4 <= pos

(***************************************************************************)
(* Parser properties                                                       *)
(***************************************************************************)
ParseFailed == parse_result \notin {"idle", "running", "ok"}

Names(a) == [i \in 1..Len(a) |-> a[i].name]

\* the indices (1-based) of the tokens of kind k, in order
RECURSIVE KindIdxs(_, _, _)
KindIdxs(toks, k, i) ==
    IF i > Len(toks) THEN <<>>
    ELSE IF toks[i].kind = k THEN <<i>> \o KindIdxs(toks, k, i + 1)
    ELSE KindIdxs(toks, k, i + 1)

\* the names of the declaration statements of a token sequence, in source
\* order: the NAME tokens that an ASSIGN token follows
DeclNames(toks) ==
    LET idxs == KindIdxs(toks, "ASSIGN", 1) IN
    [j \in 1..Len(idxs) |-> toks[idxs[j] - 1].value]

\* the index of the first token of the j-th statement
StmtStart(toks, j) ==
    IF j = 1 THEN 1 ELSE KindIdxs(toks, "SEMICOLON", 1)[j - 1] + 1

\* the j-th statement is NAME := $( x ) ;
IsDirectRef(toks, j, x) ==
    LET b == StmtStart(toks, j) IN
    /\ b + 5 <= Len(toks)
    /\ toks[b + 2].kind = "EVAL_START"
    /\ toks[b + 3] = Tok("NAME", x)
    /\ toks[b + 4].kind = "EVAL_END"
    /\ toks[b + 5].kind = "SEMICOLON"

\* the index of the latest entry of a named x among the first n, 0 if none
RECURSIVE LatestEntry(_, _, _)
LatestEntry(a, x, n) ==
    IF n = 0 THEN 0
    ELSE IF a[n].name = x THEN n
    ELSE LatestEntry(a, x, n - 1)

DeclaredNames == {tokens[i].value : i \in {k \in 1..Len(tokens) : tokens[k].kind = "NAME"}}

\* C1: when the caller mutates the list of a returned declaration that was
\* produced by a reference $(x), neither the list bound to x in the symbol
\* table nor the list of x's own declaration entry changes.
C1_ReferenceIsSeparateCopy ==
    [][\A i \in 1..Len(ast) : \A x \in DeclaredNames :
          ( /\ main_pc = "returned" /\ main_pc' = "mutated"
            /\ IsDirectRef(tokens, i, x)
            /\ ast[i].value.t = "list"
            /\ heap'[ast[i].value.a] # heap[ast[i].value.a]
            /\ LatestEntry(ast, x, Len(ast)) < i )
          => /\ Deep(Get(constants, x), heap') = Deep(Get(constants, x), heap)
             /\ LET k == LatestEntry(ast, x, i - 1) IN
                Deep(ast[k].value, heap') = Deep(ast[k].value, heap)]_vars

\* C3: a parse that fails with the cursor at the end of the token sequence,
\* where a token was still expected, fails with UnexpectedEndOfInput (an
\* undefined name in a complete last reference apart).
C3_EndOfInputError ==
    (ParseFailed /\ position >= Len(tokens) /\ parse_result # "UndefinedConstant")
        => parse_result = "UnexpectedEndOfInput"

\* C4: while parsing, every entry recorded keeps its place, its name and its
\* value, and the sequence parse returns lists the declaration statements
\* of the input one for one and in source order, repeated names included.
C4_OneEntryPerDeclaration ==
    [][parse_result = "running"
          => /\ Len(ast') >= Len(ast)
             /\ \A i \in 1..Len(ast) :
                    /\ ast'[i].name = ast[i].name
                    /\ Deep(ast'[i].value, heap') = Deep(ast[i].value, heap)
             /\ parse_result' = "ok"
                    => /\ main_ast' = Some(ast)
                       /\ Names(ast) = DeclNames(tokens)]_vars

\* a name declared twice, returned twice with two different values
C4_Witness ==
    /\ main_pc = "returned"
    /\ \E i, j \in 1..Len(main_ast.v) :
          /\ i < j
          /\ main_ast.v[i].name = main_ast.v[j].name
          /\ Deep(main_ast.v[i].value, heap) # Deep(main_ast.v[j].value, heap)

\* C5: the document emitted has one entry per declaration of the returned
\* sequence, in source order, each with the value of that declaration.
C5_EmitsDeclarationSequence ==
    main_pc = "exit0"
        => /\ Len(yaml_output.v) = Len(main_ast.v)
           /\ \A i \in 1..Len(main_ast.v) :
                  /\ yaml_output.v[i].name = main_ast.v[i].name
                  /\ yaml_output.v[i].value = Deep(main_ast.v[i].value, heap)

\* C6: a declaration changes no value already recorded in the sequence and
\* no binding of another name, and a declaration NAME := $(x); takes the
\* value of the latest declaration of x before it.
C6_ResolveThenShadow ==
    [][(parse_result = "running" /\ Len(ast') = Len(ast) + 1)
          => LET n == Len(ast')
                 new == ast'[n] IN
             /\ \A j \in 1..Len(ast) :
                    Deep(ast'[j].value, heap') = Deep(ast[j].value, heap)
             /\ \A j \in 1..Len(constants) :
                    constants[j].name # new.name
                        => /\ Has(constants', constants[j].name)
                           /\ Deep(Get(constants', constants[j].name), heap')
                                  = Deep(constants[j].value, heap)
             /\ \A x \in DeclaredNames :
                    IsDirectRef(tokens, n, x)
                        => /\ LatestEntry(ast, x, Len(ast)) # 0
                           /\ Deep(new.value, heap')
                                  = Deep(ast[LatestEntry(ast, x, Len(ast))].value, heap)
                           /\ Deep(Get(constants', new.name), heap')
                                  = Deep(new.value, heap')]_vars

\* A := v1; B := $(A); A := v2; C := $(A); with B at v1 and C at v2
C6_Witness ==
    /\ parse_result = "running"
    /\ Len(ast) = 4
    /\ Names(ast) = << <<"A">>, <<"B">>, <<"A">>, <<"C">> >>
    /\ IsDirectRef(tokens, 2, <<"A">>)
    /\ IsDirectRef(tokens, 4, <<"A">>)
    /\ Deep(ast[1].value, heap) # Deep(ast[3].value, heap)
    /\ Deep(ast[2].value, heap) = Deep(ast[1].value, heap)
    /\ Deep(Get(constants, <<"B">>), heap) = Deep(ast[1].value, heap)
    /\ Deep(ast[4].value, heap) = Deep(ast[3].value, heap)

\* tokens i, i+1, i+2 are a complete reference $( NAME )
CompleteRef(toks, i) ==
    /\ i >= 1 /\ i + 2 <= Len(toks)
    /\ toks[i].kind = "EVAL_START"
    /\ toks[i + 1].kind = "NAME"
    /\ toks[i + 2].kind = "EVAL_END"

\* a declaration of x stands before token i, its terminator included
DeclaredBefore(toks, i, x) ==
    \E k \in 1..(i - 1) :
        /\ toks[k] = Tok("NAME", x)
        /\ toks[k + 1].kind = "ASSIGN"
        /\ \E m \in (k + 1)..(i - 1) : toks[m].kind = "SEMICOLON"

\* C7: a complete reference $(NAME) the parser has gone through resolved if
\* and only if a declaration of NAME was completed before it; otherwise the
\* parse failed there with UndefinedConstant, which no other place raises.
C7_ResolvesIffDeclaredEarlier ==
    /\ \A i \in 1..Len(tokens) :
          (CompleteRef(tokens, i) /\ position >= i + 2)
              => IF DeclaredBefore(tokens, i, tokens[i + 1].value)
                 THEN ~(parse_result = "UndefinedConstant" /\ position = i + 2)
                 ELSE parse_result = "UndefinedConstant" /\ position = i + 2
    /\ parse_result = "UndefinedConstant" => CompleteRef(tokens, position - 2)

\* a redeclaration of a name that refers to the name itself, resolved to the
\* value of the declaration before it
C7_Witness ==
    /\ parse_result = "ok"
    /\ \E j \in 2..Len(ast) :
          /\ IsDirectRef(tokens, j, ast[j].name)
          /\ ast[j - 1].name = ast[j].name
          /\ Deep(ast[j].value, heap) = Deep(ast[j - 1].value, heap)

\* C10: once a declaration has failed, parse has returned no sequence and
\* main has emitted no document, and main has left through an exception.
C10_FirstErrorAborts ==
    ParseFailed
        => /\ main_ast = None
           /\ yaml_output = None
           /\ main_pc \in {"exit1", "crash"}

\* a failure after two valid declarations
C10_Witness ==
    /\ ParseFailed
    /\ Len(ast) >= 2
    /\ main_pc = "exit1"
    /\ main_ast = None
    /\ yaml_output = None

\* the characters that begin a token or a whitespace run when they stand at
\* offset p of t
BeginsToken(t, p) ==
    \/ At(t, p) \in DigitChars \cup UpperChars \cup SkipChars \cup {";", ")", ","}
    \/ \E m \in {<<"/", "*">>, <<"*", "/">>, <<":", "=">>, <<"$", "(">>,
                  <<"<", "<">>, <<">", ">">>} : Two(t, p, m[1], m[2])
    \/ At(t, p) = "'" /\ \E q \in (p + 1)..(Len(t) - 1) : At(t, q) = "'"

\* C11: a step taken outside a comment at a character that begins no token
\* and no whitespace run fails with InvalidCharacter, and the offset the
\* error carries is the byte offset of that character in the UTF-8 source.
C11_InvalidCharacterByteOffset ==
    /\ (LexFinished /\ ~in_comment /\ pos < Len(text) /\ ~BeginsToken(text, pos))
           => lex_result = "InvalidCharacter"
    /\ lex_result = "InvalidCharacter"
           => ErrorOffset = ByteOffset(text, pos)

\* the index of the first token of the statement the parse failed in
FailedStart == StmtStart(tokens, Len(ast) + 1)

KindAt(i) == IF i >= 1 /\ i <= Len(tokens) THEN tokens[i].kind ELSE "END"

\* C12: a statement whose first token is not a name fails with ExpectedName,
\* one whose second token is present and not := with ExpectedAssign, one
\* whose scalar value is followed by a token other than ; with
\* ExpectedSemicolon; each error stands at the earliest offending token and
\* is raised in no other case.
C12_WrongKindErrors ==
    ParseFailed =>
        LET b == FailedStart IN
        /\ KindAt(b) # "NAME"
               => parse_result = "ExpectedName" /\ position = b - 1
        /\ (KindAt(b) = "NAME" /\ KindAt(b + 1) \notin {"ASSIGN", "END"})
               => parse_result = "ExpectedAssign" /\ position = b
        /\ ( /\ KindAt(b) = "NAME" /\ KindAt(b + 1) = "ASSIGN"
             /\ KindAt(b + 2) \in {"NUMBER", "STRING"}
             /\ KindAt(b + 3) \notin {"SEMICOLON", "END"} )
               => parse_result = "ExpectedSemicolon" /\ position = b + 2
        /\ parse_result = "ExpectedName"
               => KindAt(b) # "NAME" /\ position = b - 1
        /\ parse_result = "ExpectedAssign"
               => /\ KindAt(b) = "NAME" /\ position = b
                  /\ KindAt(b + 1) \notin {"ASSIGN", "END"}
        /\ parse_result = "ExpectedSemicolon"
               => /\ KindAt(b) = "NAME" /\ KindAt(b + 1) = "ASSIGN"
                  /\ position >= b + 2
                  /\ KindAt(position + 1) \notin {"SEMICOLON", "END"}

\* A := 5 B after a valid declaration: the ; is missing before B
C12_Witness ==
    /\ parse_result = "ExpectedSemicolon"
    /\ Len(ast) >= 1
    /\ KindAt(FailedStart + 2) = "NUMBER"
    /\ KindAt(FailedStart + 3) = "NAME"
    /\ position = FailedStart + 2

\* the tokens of the value of the j-th statement, between := and ;
ValueSpan(toks, j) ==
    SubSeq(toks, StmtStart(toks, j) + 2, KindIdxs(toks, "SEMICOLON", 1)[j] - 1)

DigitChar(d) ==
    CASE d = 0 -> "0" [] d = 1 -> "1" [] d = 2 -> "2" [] d = 3 -> "3"
      [] d = 4 -> "4" [] d = 5 -> "5" [] d = 6 -> "6" [] d = 7 -> "7"
      [] d = 8 -> "8" [] d = 9 -> "9"

\* the decimal digits of n
RECURSIVE Digits(_)
Digits(n) == IF n < 10 THEN <<DigitChar(n)>>
             ELSE Append(Digits(n \div 10), DigitChar(n % 10))

\* the literal that denotes a value tree, as tokens
RECURSIVE Render(_)
RECURSIVE RenderItems(_, _)
Render(tree) ==
    CASE tree.t = "int" -> <<Tok("NUMBER", Digits(tree.n))>>
      [] tree.t = "str" -> <<Tok("STRING", <<"'">> \o tree.s \o <<"'">>)>>
      [] tree.t = "list" ->
             <<ArrayStartT>> \o RenderItems(tree.items, 1) \o <<ArrayEndT>>
RenderItems(items, i) ==
    IF i > Len(items) THEN <<>>
    ELSE IF i = Len(items) THEN Render(items[i])
    ELSE Render(items[i]) \o <<CommaT>> \o RenderItems(items, i + 1)

\* the token texts written one after the other
RECURSIVE JoinTexts(_)
JoinTexts(toks) == IF toks = <<>> THEN <<>> ELSE Head(toks).value \o JoinTexts(Tail(toks))

TInt(n) == [t |-> "int", n |-> n, s |-> <<>>, items |-> <<>>]
TList(items) == [t |-> "list", n |-> 0, s |-> <<>>, items |-> items]

\* C13: the value parsed from an array literal holds the values of the
\* literal's elements in source order, nested as written: written back as a
\* literal it gives the tokens of the literal again; and the literal's text,
\* adjacent closers included, is tokenized to exactly those tokens.
C13_ArrayLiteralValue ==
    main_pc # "mutated" =>
        \A j \in 1..Len(ast) :
            LET span == ValueSpan(tokens, j) IN
            (span[1].kind = "ARRAY_START"
                 /\ \A k \in 1..Len(span) : span[k].kind # "EVAL_START")
                => /\ ast[j].value.t = "list"
                   /\ Render(Deep(ast[j].value, heap)) = span
                   /\ GenerateTokens(JoinTexts(span))
                          = [result |-> "ok", returned |-> Some(span)]

\* A := <<1,2,<<3,4>>>>; parsed to [1, 2, [3, 4]]
C13_Witness ==
    /\ parse_result = "ok" /\ main_pc = "returned"
    /\ \E j \in 1..Len(ast) :
          /\ Deep(ast[j].value, heap)
                 = TList(<<TInt(1), TInt(2), TList(<<TInt(3), TInt(4)>>)>>)
          /\ JoinTexts(ValueSpan(tokens, j))
                 = <<"<", "<", "1", ",", "2", ",", "<", "<", "3", ",", "4",
                     ">", ">", ">", ">">>

\* how many tokens of kind k stand among tokens i..j
CountKind(toks, k, i, j) == Cardinality({n \in i..j : toks[n].kind = k})

\* how many arrays are open at the cursor within the failed statement
OpenArrays ==
    CountKind(tokens, "ARRAY_START", FailedStart, position)
        - CountKind(tokens, "ARRAY_END", FailedStart, position)

\* C14: where the parse stops at a >> that follows << or a comma it fails
\* with UnexpectedToken; where it stops inside an array at a token after an
\* element that is neither , nor >> it fails with ExpectedCommaOrArrayEnd,
\* which is raised nowhere else; and no list without elements exists.
C14_ArrayGrammarViolations ==
    /\ \A a \in 1..Len(heap) : Len(heap[a]) >= 1
    /\ ParseFailed =>
           LET c == position + 1 IN
           /\ ( /\ KindAt(c) = "ARRAY_END"
                /\ KindAt(c - 1) \in {"ARRAY_START", "COMMA"}
                /\ OpenArrays > 0 )
                  => parse_result = "UnexpectedToken"
           /\ ( /\ OpenArrays > 0
                /\ KindAt(c - 1) \in {"NUMBER", "STRING", "ARRAY_END"}
                /\ KindAt(c) \notin {"COMMA", "ARRAY_END", "END"} )
                  => parse_result = "ExpectedCommaOrArrayEnd"
           /\ parse_result = "ExpectedCommaOrArrayEnd"
                  => /\ OpenArrays > 0
                     /\ KindAt(c) \notin {"COMMA", "ARRAY_END", "END"}

\* <<1,>> : the parse stopped at the >> after the comma
C14_Witness ==
    /\ parse_result = "UnexpectedToken"
    /\ KindAt(position) = "COMMA"
    /\ KindAt(position + 1) = "ARRAY_END"
    /\ OpenArrays = 1

\* C15: once the parser is past a $( , a token after it that is not a name
\* fails the parse there, and a name followed by a token that is not ) fails
\* the parse at that token, whether or not the name is declared;
\* UndefinedConstant is raised only behind a complete $( NAME ).
C15_SyntaxBeforeResolution ==
    /\ \A i \in 1..Len(tokens) :
          (tokens[i].kind = "EVAL_START" /\ position >= i)
              => /\ KindAt(i + 1) \notin {"NAME", "END"}
                        => parse_result = "ExpectedEvalName" /\ position = i
                 /\ (KindAt(i + 1) = "NAME" /\ KindAt(i + 2) \notin {"EVAL_END", "END"})
                        => parse_result = "ExpectedEvalEnd" /\ position = i + 1
    /\ parse_result = "UndefinedConstant"
          => /\ KindAt(position - 2) = "EVAL_START"
             /\ KindAt(position - 1) = "NAME"
             /\ KindAt(position) = "EVAL_END"
             /\ ~Has(constants, tokens[position - 1].value)

\* A := $(B; with B not declared: the parse stopped at the ; for the missing )
C15_Witness ==
    /\ parse_result = "ExpectedEvalEnd"
    /\ KindAt(position - 1) = "EVAL_START"
    /\ KindAt(position) = "NAME"
    /\ KindAt(position + 1) = "SEMICOLON"
    /\ ~Has(constants, tokens[position].value)

TokenKinds == {"ASSIGN", "SEMICOLON", "EVAL_START", "EVAL_END", "ARRAY_START",
               "ARRAY_END", "COMMA", "NUMBER", "STRING", "NAME"}

\* t from offset p on without its comments (from /* through the first */
\* after it, or to the end of t when there is none) and without the
\* whitespace outside string literals
RECURSIVE StripSpans(_, _)
StripSpans(t, p) ==
    IF p >= Len(t) THEN <<>>
    ELSE IF Two(t, p, "/", "*")
        THEN LET e == Find2(t, "*", "/", p + 2) IN
             IF e = -1 THEN <<>> ELSE StripSpans(t, e + 2)
    ELSE IF At(t, p) \in SkipChars THEN StripSpans(t, p + 1)
    ELSE IF At(t, p) = "'" /\ FindQuote(t, p + 1) # -1
        THEN Slice(t, p, FindQuote(t, p + 1) + 1)
                 \o StripSpans(t, FindQuote(t, p + 1) + 1)
    ELSE <<At(t, p)>> \o StripSpans(t, p + 1)

\* C16: the tokens collected, and the tokens returned, are all of the ten
\* meaningful kinds, and the texts of the returned tokens written one after
\* the other are the input without its comments and whitespace.
C16_OnlyMeaningfulTokens ==
    /\ \A i \in 1..Len(lexer_tokens) : lexer_tokens[i].kind \in TokenKinds
    /\ lex_result = "ok"
          => /\ lex_returned = Some(lexer_tokens)
             /\ JoinTexts(lex_returned.v) = StripSpans(text, 0)

\* a text with a token and a comment, returned as the token alone
C16_Witness ==
    /\ lex_result = "ok"
    /\ Len(lex_returned.v) >= 1
    /\ Find2(text, "*", "/", 0) > Find2(text, "/", "*", 0)
    /\ Find2(text, "/", "*", 0) >= 0
    /\ Len(JoinTexts(lex_returned.v)) < Len(text)

\* C17: every STRING token the lexer has collected is parsed by Parser.value
\* to the Text that is the token text without its first and its last
\* character, the inner text unchanged.
C17_StringValueIsInnerText ==
    \A i \in 1..Len(lexer_tokens) :
        lexer_tokens[i].kind = "STRING"
            => LET tv == lexer_tokens[i].value
                   r == Value(<<lexer_tokens[i]>>, 0, <<>>, <<>>) IN
               /\ Len(tv) >= 2
               /\ r.err = "none"
               /\ r.position = 1
               /\ r.val = StrV(SubSeq(tv, 2, Len(tv) - 1))

\* the empty literal and a literal holding a blank have been tokenized
C17_Witness ==
    /\ lex_result = "ok"
    /\ \E i \in 1..Len(lexer_tokens) : lexer_tokens[i] = EmptyStrT
    /\ \E i \in 1..Len(lexer_tokens) :
          lexer_tokens[i] = Tok("STRING", <<"'", "x", "'">>)

\* the symbol table and the declaration sequence agree: same names, and each
\* name bound to the value of its latest entry
TableMatchesSequence(consts, a, hp) ==
    /\ \A j \in 1..Len(consts) : \E i \in 1..Len(a) : a[i].name = consts[j].name
    /\ \A j, k \in 1..Len(consts) : consts[j].name = consts[k].name => j = k
    /\ \A i \in 1..Len(a) :
          /\ Has(consts, a[i].name)
          /\ LET latest == a[LatestEntry(a, a[i].name, Len(a))].value IN
             /\ Get(consts, a[i].name) = latest
             /\ Deep(Get(consts, a[i].name), hp) = Deep(latest, hp)

\* C18: between declarations the key set of the symbol table is the set of
\* names of the declaration sequence built so far and every name is bound to
\* the value of its latest entry; a declaration that fails leaves the table
\* and the value of every binding as they were.
C18_SymbolTableInvariant ==
    /\ [](parse_result \in {"running", "ok"} \/ ParseFailed
             => TableMatchesSequence(constants, ast, heap))
    /\ [][parse_result = "running" /\ ParseFailed'
             => /\ constants' = constants
                /\ ast' = ast
                /\ \A j \in 1..Len(constants) :
                      Deep(constants'[j].value, heap') = Deep(constants[j].value, heap)]_vars

\* a name declared twice with different values, then a failing declaration
C18_Witness ==
    /\ ParseFailed
    /\ Len(ast) >= 2
    /\ Len(constants) < Len(ast)
    /\ \E i \in 1..Len(ast) : \E k \in (i + 1)..Len(ast) :
          /\ ast[i].name = ast[k].name
          /\ Deep(ast[i].value, heap) # Deep(ast[k].value, heap)
          /\ Get(constants, ast[k].name) = ast[LatestEntry(ast, ast[k].name, Len(ast))].value

(***************************************************************************)
(* Both loops under the scheduling of a sequential program: a loop whose   *)
(* body can run does run                                                   *)
(***************************************************************************)
MaxRunPieces == 3
MaxRunDecls == 3

RunPieces ==
    { <<":", "=">>, <<"A">>, <<"'", "x", "'">>, <<" ">>, <<"/", "*">>, <<"*", "/">>,
      <<"'">>, <<"$">> }

\* Lexer.__init__ on a text of up to MaxRunPieces lexemes
InitRunLexer ==
    /\ \E n \in 0..MaxRunPieces : \E ps \in SeqsOfLen(RunPieces, n) : text = Concat(ps)
    /\ pos = 0
    /\ in_comment = FALSE
    /\ lexer_tokens = <<>>
    /\ lex_result = "running"
    /\ lex_returned = None
    /\ ParserIdle

\* Parser.__init__ on up to MaxRunDecls statements, the last one of any kind
InitRunParser ==
    /\ LexerDone
    /\ \E n \in 0..(MaxRunDecls - 1) : \E g \in SeqsOfLen(GoodStmts, n) :
          \E e \in Endings : tokens = Concat(g) \o e
    /\ position = 0
    /\ constants = <<>>
    /\ ast = <<>>
    /\ heap = <<>>
    /\ parse_result = "running"
    /\ main_pc = "parse"
    /\ main_ast = None
    /\ yaml_output = None

InitRun == InitRunLexer \/ InitRunParser

NextRun == Next \/ NextLex

\* the lexer loop runs while it can
LexerFair == WF_vars(NextLex)

\* the same for the parser loop, WF_vars(Declaration \/ ParseReturn) written
\* out: the loop is enabled exactly while parse_result is "running", and
\* WF_vars(A) is []<>~ENABLED <<A>>_vars \/ []<><<A>>_vars
ParserFair == []<>(parse_result # "running") \/ []<><<Declaration \/ ParseReturn>>_vars

SpecRun == InitRun /\ [][NextRun]_vars /\ LexerFair /\ ParserFair

\* a value parsed from cursor p without an error ends at a later cursor
\* within the tokens
ValueAdvances(p) ==
    LET r == Value(tokens, p, constants, heap) IN
    r.err = "none" => p < r.position /\ r.position <= Len(tokens)

\* neither position is past the end of its input, and while the parser runs
\* every value that parses from the cursor or later advances
WithinInput ==
    /\ pos <= Len(text)
    /\ position <= Len(tokens)
    /\ parse_result = "running"
          => \A p \in position..Len(tokens) : ValueAdvances(p)

\* C19: an iteration of the lexer loop that continues has strictly increased
\* the scan position, a declaration that returns normally has strictly
\* increased the token cursor, as has every value parsed without an error,
\* neither position passes the end of its input, and both loops therefore
\* come to an end with a result or an error.
C19_ProgressAndTermination ==
    /\ [][lex_result = "running" /\ lex_result' = "running" => pos' > pos]_vars
    /\ [][parse_result = "running" /\ parse_result' = "running"
             => position' > position]_vars
    /\ []WithinInput
    /\ (lex_result = "running") ~> (lex_result # "running")
    /\ (parse_result = "running") ~> (parse_result # "running")

\* the lexer has returned after passing a whole comment and a token
C19_Witness ==
    /\ lex_result = "ok"
    /\ pos = Len(text)
    /\ Find2(text, "/", "*", 0) >= 0
    /\ Find2(text, "*", "/", 0) >= 2
    /\ Len(lexer_tokens) = 1

====
